---- MODULE Spec2Model ----
(***************************************************************************)
(* The chart wheel layout of hayun17/astro-ai-site (ChartWheel.tsx, kept   *)
(* as src/unnamed/part_000): one render of the component is a pipeline of  *)
(* stages (normalizer, rotation, sign ring, house lines, ASC line, body    *)
(* placement, name lookup table, aspect loop) over one chart record.       *)
(*                                                                         *)
(* Numbers.  Angles, longitudes and orbs are fixed-point integers with     *)
(* Unit steps per degree, so 6.1 degrees is 6 * Unit + Unit \div 10.       *)
(* Arithmetic is exact: the rounding of IEEE doubles is not modelled.      *)
(* Radii and the canvas size are whole pixels.                             *)
(*                                                                         *)
(* JSON values.  A value of the loosely typed input is a tagged record     *)
(* [t, n, s]: t = "num" (n is the number), "str" (s is the text), "bool"   *)
(* (n is 0 or 1) or "nil" (null, undefined or an absent key).  NaN and     *)
(* the infinities are not JSON values; NaN appears only as the result of   *)
(* Number(v), with t = "nan".                                              *)
(***************************************************************************)
EXTENDS Integers, Sequences, FiniteSets, TLC

\* ------------------------------------------------------------------------
\* Resolution and input bounds
\* ------------------------------------------------------------------------

\* fixed-point steps per degree
Unit == 1000

\* longest free (arbitrary) part of an aspect list
MaxFree == 2

\* how many generated aspect entries beyond maxLines the longest list holds
TailExtra == 2

\* ------------------------------------------------------------------------
\* JSON values
\* ------------------------------------------------------------------------

Num(n) == [t |-> "num", n |-> n, s |-> ""]
Str(x) == [t |-> "str", n |-> 0, s |-> x]
Bool(b) == [t |-> "bool", n |-> IF b THEN 1 ELSE 0, s |-> ""]
Nil == [t |-> "nil", n |-> 0, s |-> ""]
NaN == [t |-> "nan", n |-> 0, s |-> ""]

Deg(d) == Num(d * Unit)

\* typeof v === "number"
IsNumber(v) == v.t = "num"

\* v == null (null or undefined)
IsNullish(v) == v.t = "nil"

\* JavaScript truthiness of a value: !v is ~Truthy(v)
Truthy(v) ==
    CASE v.t = "nil" -> FALSE
      [] v.t = "nan" -> FALSE
      [] v.t = "num" -> v.n # 0
      [] v.t = "bool" -> v.n = 1
      [] v.t = "str" -> v.s # ""

\* a ?? b
Coalesce(a, b) == IF IsNullish(a) THEN b ELSE a

\* the strings of the model that parse as numbers, with their values
NumericStrings == [x \in {"130", "7"} |-> IF x = "130" THEN 130 * Unit ELSE 7 * Unit]

\* Number(v), as the cusps normalizer applies it
NumberOf(v) ==
    CASE v.t = "num" -> v
      [] v.t = "nan" -> NaN
      [] v.t = "nil" -> Num(0)
      [] v.t = "bool" -> Num(v.n * Unit)
      [] v.t = "str" ->
            IF v.s = "" THEN Num(0)
            ELSE IF v.s \in DOMAIN NumericStrings THEN Num(NumericStrings[v.s])
            ELSE NaN

\* Number.isFinite(n)
IsFinite(v) == v.t = "num"

DigitStr(d) ==
    CASE d = 0 -> "0" [] d = 1 -> "1" [] d = 2 -> "2" [] d = 3 -> "3"
      [] d = 4 -> "4" [] d = 5 -> "5" [] d = 6 -> "6" [] d = 7 -> "7"
      [] d = 8 -> "8" [] d = 9 -> "9"

RECURSIVE NatToStr(_)
NatToStr(n) == IF n < 10 THEN DigitStr(n) ELSE NatToStr(n \div 10) \o DigitStr(n % 10)

\* String(v) of a string or of a whole non-negative number (a name or an
\* aspect type is not an angle: its number is not scaled by Unit)
ToStr(v) ==
    CASE v.t = "str" -> v.s
      [] v.t = "num" -> NatToStr(v.n)
      [] v.t = "bool" -> IF v.n = 1 THEN "true" ELSE "false"
      [] v.t = "nil" -> "null"
      [] v.t = "nan" -> "NaN"

\* ------------------------------------------------------------------------
\* Module constants of ChartWheel
\* ------------------------------------------------------------------------

SIGNS ==
    << "Aries", "Taurus", "Gemini", "Cancer", "Leo", "Virgo",
       "Libra", "Scorpio", "Sagittarius", "Capricorn", "Aquarius", "Pisces" >>

BODY_ORDER ==
    << "Sun", "Moon", "Mercury", "Venus", "Mars", "Jupiter", "Saturn", "Uranus",
       "Neptune", "Pluto", "TrueNode", "Lilith", "Chiron", "Vertex", "Fortune",
       "Asc", "MC", "DSC", "IC" >>

size == 620
cx == size \div 2
cy == size \div 2
R_OUT == 292
R_SIGN_IN == 262
R_PLANET == 245
R_ASPECT == 165
R_CENTER == 125
SIGN_RING_STROKE == 10
HOUSE_END_R == R_SIGN_IN + SIGN_RING_STROKE \div 2 - 1
R_ASPECT_DRAW == IF R_ASPECT < R_CENTER - 10 THEN R_ASPECT ELSE R_CENTER - 10

\* ------------------------------------------------------------------------
\* Pure helpers
\* ------------------------------------------------------------------------

\* JavaScript's a % n for n > 0: the result has the sign of a
JsRem(a, n) == IF a >= 0 THEN a % n ELSE -((-a) % n)

wrap360(d) ==
    LET x == JsRem(d, 360 * Unit)
    IN  IF x < 0 THEN x + 360 * Unit ELSE x

\* the radian angle (astroDeg - 90) * (PI / 180), kept as its degree count
astroDegToSvgRad(astroDeg) == astroDeg - 90 * Unit

\* the point (cx + r cos a, cy + r sin a), kept by its polar form: for r > 0 and
\* angles in [0, 360) two points are equal exactly when r and a are
polar(pcx, pcy, r, astroDeg) ==
    [cx |-> pcx, cy |-> pcy, r |-> r, a |-> astroDegToSvgRad(astroDeg)]

\* ------------------------------------------------------------------------
\* The chart record (Props.chart, "backend chart json")
\* ------------------------------------------------------------------------

\* the property names the model uses in planets and points: BODY_ORDER, the
\* upper-case ASC the normalizer looks up, and one body BODY_ORDER does not list
Names == {BODY_ORDER[i] : i \in 1..Len(BODY_ORDER)} \cup {"ASC", "Ceres"}

\* one entry of planets or points: an absent key, null, a primitive such as "x",
\* or an object with lon, available and deg_in_sign (each possibly absent)
Missing == [k |-> "missing", lon |-> Nil, available |-> Nil, deg_in_sign |-> Nil]
NullBody == [k |-> "nil", lon |-> Nil, available |-> Nil, deg_in_sign |-> Nil]
PrimBody == [k |-> "prim", lon |-> Nil, available |-> Nil, deg_in_sign |-> Nil]
Rec(lon, av, dis) == [k |-> "rec", lon |-> lon, available |-> av, deg_in_sign |-> dis]

NoBodies == [n \in Names |-> Missing]

\* chart.planets or chart.points: an object, null/absent, or a primitive (5)
ObjGroup(m) == [k |-> "obj", m |-> m]
NilGroup == [k |-> "nil", m |-> NoBodies]
PrimGroup == [k |-> "prim", m |-> NoBodies]

\* an array field: an array, null/absent, or a truthy value that is no array
Arr(items) == [k |-> "arr", items |-> items]
NilArr == [k |-> "nil", items |-> << >>]
NotArr == [k |-> "other", items |-> << >>]

\* one element of an aspect list: an object or null
Edge(p1, p2, aspect, orb) == [k |-> "obj", p1 |-> p1, p2 |-> p2, aspect |-> aspect, orb |-> orb]
NilEdge == [k |-> "nil", p1 |-> Nil, p2 |-> Nil, aspect |-> Nil, orb |-> Nil]

Houses(asc, c, hc) == [k |-> "obj", ascendant |-> asc, cusps |-> c, house_cusps |-> hc]
NilHouses == [k |-> "nil", ascendant |-> Nil, cusps |-> NilArr, house_cusps |-> NilArr]

Aspects(pa, oa) == [k |-> "obj", planet_aspects |-> pa, other_aspects |-> oa]
NilAspects == [k |-> "nil", planet_aspects |-> NilArr, other_aspects |-> NilArr]

Chart(h, pl, po, as) == [houses |-> h, planets |-> pl, points |-> po, aspects |-> as]

\* ------------------------------------------------------------------------
\* Bounded inputs
\* ------------------------------------------------------------------------

Half == Unit \div 2
Tenth == Unit \div 10

\* --- ascendant sources
AscendantValues == {Nil, Str("100"), Deg(100), Deg(-30), Deg(725), Deg(0), Num(99 * Unit + Tenth)}
PointAscValues == {Missing, NullBody, Rec(Deg(50), Nil, Nil), Rec(Str("x"), Nil, Nil)}
PointASCValues == {Missing, Rec(Deg(200), Nil, Nil)}

\* --- house cusps
CuspSeq(len, start) == [i \in 1..len |-> Deg(start + 30 * (i - 1))]
Junk == {Str("abc"), Str("130"), Nil}
CuspArrays ==
    {Arr(CuspSeq(len, 100)) : len \in {0, 11, 12, 13}}
    \cup {Arr([CuspSeq(len, 100) EXCEPT ![j] = v]) : len \in {12, 13}, j \in {1, 12}, v \in Junk}
CuspFields ==
    {<<c, NilArr>> : c \in CuspArrays}
    \cup {<<NilArr, NilArr>>, <<NotArr, Arr(CuspSeq(12, 0))>>, <<NilArr, Arr(CuspSeq(12, 0))>>,
          <<NilArr, NotArr>>}

\* --- bodies
BasePlanets ==
    [n \in Names |->
        CASE n = "Sun" -> Rec(Deg(10), Nil, Nil)
          [] n = "Moon" -> Rec(Deg(200), Bool(TRUE), Num(20 * Unit))
          [] n = "Venus" -> Rec(Num(365 * Unit + Half), Nil, Num(5 * Unit + Half))
          [] n = "Mars" -> Rec(Deg(-20), Nil, Nil)
          [] n = "Ceres" -> Rec(Deg(50), Nil, Nil)
          [] OTHER -> Missing]

Defects ==
    {Missing, NullBody, PrimBody,
     Rec(Nil, Nil, Nil), Rec(Str("10"), Nil, Nil),
     Rec(Deg(40), Bool(FALSE), Nil), Rec(Deg(40), Str("false"), Nil)}
Victims == {"Sun", "Moon", "Mars"}

PlanetGroups ==
    {ObjGroup(BasePlanets), NilGroup, PrimGroup}
    \cup {ObjGroup([BasePlanets EXCEPT ![v] = d]) : v \in Victims, d \in Defects}

PointMaps ==
    {NoBodies,
     [NoBodies EXCEPT !["Fortune"] = Rec(Deg(77), Nil, Nil),
                      !["MC"] = Rec(Num(300 * Unit + Half), Bool(FALSE), Nil)],
     [NoBodies EXCEPT !["Sun"] = Rec(Deg(20), Bool(FALSE), Nil)],
     [NoBodies EXCEPT !["Moon"] = NullBody],
     [NoBodies EXCEPT !["Mars"] = PrimBody, !["Jupiter"] = Rec(Str("1"), Nil, Nil)]}
PointGroups == {ObjGroup(m) : m \in PointMaps} \cup {NilGroup, PrimGroup}

\* the points group with its ascendant entries set
WithAsc(g, pa, pA) ==
    IF g.k = "obj" THEN ObjGroup([g.m EXCEPT !["Asc"] = pa, !["ASC"] = pA])
    ELSE IF pa = Missing /\ pA = Missing THEN g
    ELSE ObjGroup([NoBodies EXCEPT !["Asc"] = pa, !["ASC"] = pA])

\* --- aspects
FreeEdges ==
    {Edge(Str("Sun"), Str("Moon"), Str("trine"), Deg(2)),
     Edge(Str("Moon"), Str("Sun"), Str("trine"), Deg(3)),
     Edge(Str("Moon"), Str("Sun"), Str("trine"), Num(6 * Unit + Tenth)),
     Edge(Str("Sun"), Str("Moon"), Str("Square"), Deg(6)),
     Edge(Str("Sun"), Str("Mars"), Str("sextile"), Str("3")),
     Edge(Str("Sun"), Str("Ceres"), Num(90), Deg(1)),
     Edge(Str("Sun"), Str("Moon"), Num(90), Deg(1)),
     Edge(Num(7), Str("Sun"), Str("trine"), Deg(-1)),
     Edge(Str("Venus"), Str(""), Str("trine"), Deg(1)),
     NilEdge}

FreeLists == UNION {[1..n -> FreeEdges] : n \in 0..MaxFree}

TailNames == << "Sun", "Moon", "Venus", "Mars" >>
TailPairs == << <<1, 2>>, <<1, 3>>, <<1, 4>>, <<2, 3>>, <<2, 4>>, <<3, 4>> >>
TailTypes == << "trine", "square", "sextile", "OPPOSITION", "conjunction", "quincunx" >>

\* the j-th generated edge: all keys differ, the name order alternates, orbs 0..6
TailEdge(j) ==
    LET pr == TailPairs[((j - 1) % Len(TailPairs)) + 1]
        ty == TailTypes[(((j - 1) \div Len(TailPairs)) % Len(TailTypes)) + 1]
        a == TailNames[pr[1]]
        b == TailNames[pr[2]]
    IN  IF j % 2 = 1 THEN Edge(Str(a), Str(b), Str(ty), Deg(j % 7))
        ELSE Edge(Str(b), Str(a), Str(ty), Deg(j % 7))

TailList(len) == [j \in 1..len |-> TailEdge(j)]

\* a list cut into the primary and the secondary list after its first n entries
Split(list, n) ==
    Aspects(Arr(SubSeq(list, 1, n)), Arr(SubSeq(list, n + 1, Len(list))))

Min(a, b) == IF a < b THEN a ELSE b

Splits(list) == {Split(list, n) : n \in {0, Min(1, Len(list)), Len(list)}}

BaseAspects == Split(TailList(4), 3)

\* ------------------------------------------------------------------------
\* Normalizer (the first useMemo)
\* ------------------------------------------------------------------------

\* chart?.points?.<name>?.lon
GetLon(g, name) ==
    IF g.k = "obj" /\ g.m[name].k = "rec" THEN g.m[name].lon ELSE Nil

\* chart?.houses?.ascendant ?? chart?.points?.Asc?.lon ?? chart?.points?.ASC?.lon ?? null
AscOf(c) ==
    Coalesce(Coalesce(Coalesce(c.houses.ascendant, GetLon(c.points, "Asc")),
                      GetLon(c.points, "ASC")), Nil)

\* typeof asc === "number" ? wrap360(asc) : null
AscDegOf(c) ==
    LET asc == AscOf(c)
    IN  IF IsNumber(asc) THEN Num(wrap360(asc.n)) ELSE Nil

\* chart?.houses?.cusps ?? chart?.houses?.house_cusps ?? []
CuspsArrOf(c) ==
    IF c.houses.cusps.k # "nil" THEN c.houses.cusps
    ELSE IF c.houses.house_cusps.k # "nil" THEN c.houses.house_cusps
    ELSE Arr(<< >>)

RECURSIVE FiniteNumbers(_)
FiniteNumbers(items) ==
    IF items = << >> THEN << >>
    ELSE LET n == NumberOf(Head(items))
         IN  (IF IsFinite(n) THEN << n.n >> ELSE << >>) \o FiniteNumbers(Tail(items))

\* Array.isArray(cuspsArr) ? cuspsArr.map(Number).filter(Number.isFinite) : []
CuspsOf(c) ==
    LET cuspsArr == CuspsArrOf(c)
    IN  IF cuspsArr.k = "arr" THEN FiniteNumbers(cuspsArr.items) ELSE << >>

\* { ...pointsObj[k], available: true }
SpreadAvailable(d) ==
    IF d.k = "rec" THEN [d EXCEPT !.available = Bool(TRUE)]
    ELSE Rec(Nil, Bool(TRUE), Nil)

\* Object.keys(pointsObj || {})
KeysOf(g) == IF g.k = "obj" THEN {n \in Names : g.m[n].k # "missing"} ELSE {}

\* the overlay the wrong way round: a planets entry wins over a points entry
MergedOfPlanetsFirst(c) ==
    LET planetsObj == IF c.planets.k = "obj" THEN c.planets.m ELSE NoBodies
    IN  [n \in Names |->
            IF planetsObj[n].k # "missing" THEN planetsObj[n]
            ELSE IF n \in KeysOf(c.points) THEN SpreadAvailable(c.points.m[n])
            ELSE planetsObj[n]]

\* merged = { ...planetsObj }, then every key of points overlaid as visible
MergedOf(c) ==
    LET planetsObj == IF c.planets.k = "obj" THEN c.planets.m ELSE NoBodies
    IN  [n \in Names |->
            IF n \in KeysOf(c.points) THEN SpreadAvailable(c.points.m[n])
            ELSE planetsObj[n]]

\* chart?.aspects ?? {}
AspectsObjOf(c) == IF c.aspects.k = "nil" THEN Aspects(NilArr, NilArr) ELSE c.aspects

\* ------------------------------------------------------------------------
\* Rotation, sign ring, house lines, ASC line
\* ------------------------------------------------------------------------

\* a sign slip in the subtraction
RotOfSlip(a) == IF IsNullish(a) THEN 0 ELSE wrap360(a.n - 270 * Unit)

\* ascDeg == null ? 0 : wrap360(270 - ascDeg)
RotOf(a) == IF IsNullish(a) THEN 0 ELSE wrap360(270 * Unit - a.n)

SignLinesOf(rt) ==
    [i \in 1..12 |->
        LET deg == wrap360((i - 1) * 30 * Unit + rt)
        IN  [deg |-> deg, p1 |-> polar(cx, cy, R_SIGN_IN, deg), p2 |-> polar(cx, cy, R_OUT, deg)]]

SIGN_GLYPHS ==
    [i \in 1..12 |->
        << "U+2648", "U+2649", "U+264A", "U+264B", "U+264C", "U+264D",
           "U+264E", "U+264F", "U+2650", "U+2651", "U+2652", "U+2653" >>[i]]

SignLabelsOf(rt) ==
    [i \in 1..12 |->
        LET deg == wrap360((i - 1) * 30 * Unit + 15 * Unit + rt)
        IN  [sign |-> SIGNS[i], glyph |-> SIGN_GLYPHS[i],
             p |-> polar(cx, cy, (R_OUT + R_SIGN_IN) \div 2, deg)]]

\* cusps?.length === 12 ? cusps : []
GatedCusps(cs) == IF Len(cs) = 12 THEN cs ELSE << >>

HouseLinesOf(cs, rt) ==
    LET g == GatedCusps(cs)
    IN  [i \in 1..Len(g) |->
            LET deg == wrap360(g[i] + rt)
            IN  [idx |-> i, deg |-> deg,
                 p1 |-> polar(cx, cy, R_CENTER - 6, deg),
                 p2 |-> polar(cx, cy, HOUSE_END_R, deg)]]

\* the ASC line, << >> standing for null
AscLineOf(a, rt) ==
    IF IsNullish(a) THEN << >>
    ELSE LET deg == wrap360(a.n + rt)
         IN  << [deg |-> deg,
                 p1 |-> polar(cx, cy, R_CENTER - 6, deg),
                 p2 |-> polar(cx, cy, R_OUT, deg),
                 labelP |-> polar(cx, cy, R_OUT + 16, deg)] >>

\* ------------------------------------------------------------------------
\* Body placement
\* ------------------------------------------------------------------------

BODY_GLYPHS ==
    [i \in 1..19 |->
        << "U+2609", "U+263D", "U+263F", "U+2640", "U+2642", "U+2643", "U+2644",
           "U+2645", "U+2646", "U+2647", "U+260A", "U+26B8", "U+26B7", "Vx", "U+2297",
           "ASC", "MC", "DSC", "IC" >>[i]]

\* String(n).padStart(2, "0")
pad(n) == IF n < 10 THEN "0" \o NatToStr(n) ELSE NatToStr(n)

\* the label without the carry of minute 60
degToDegMinNoCarry(deg) ==
    LET d == deg \div Unit
        m == (2 * 60 * (deg - d * Unit) + Unit) \div (2 * Unit)
    IN  [deg |-> d, min |-> pad(m)]

\* the label `${dd}deg${pad(mm)}min`, kept as its degree number and minute text;
\* Math.floor is \div, Math.round(x) is floor(x + 1/2)
degToDegMin(deg) ==
    LET d == deg \div Unit
        m == (2 * 60 * (deg - d * Unit) + Unit) \div (2 * Unit)
        mm == IF m = 60 THEN 0 ELSE m
        dd == IF m = 60 THEN d + 1 ELSE d
    IN  [deg |-> dd, min |-> pad(mm)]

lonToSignDeg(lon) ==
    LET L == wrap360(lon)
        signIndex == L \div (30 * Unit)
    IN  [sign |-> SIGNS[signIndex + 1], degInSign |-> L - signIndex * 30 * Unit]

\* the available test left out
SkippedIgnoringAvailable(d) ==
    \/ d.k \in {"missing", "nil"}
    \/ ~IsNumber(d.lon)

\* the three continue tests of the placement loop
Skipped(d) ==
    \/ d.k \in {"missing", "nil"}
    \/ d.available = Bool(FALSE)
    \/ ~IsNumber(d.lon)

\* R_PLANET - (placed % 3) * 12
RadiusOf(placed) == R_PLANET - (placed % 3) * 12

PointOf(i, d, placed, rt) ==
    LET lon == d.lon.n
        deg == wrap360(lon + rt)
        degInSign == IF IsNumber(d.deg_in_sign) THEN d.deg_in_sign.n
                     ELSE lonToSignDeg(lon).degInSign
    IN  [name |-> BODY_ORDER[i], lon |-> lon,
         p |-> polar(cx, cy, RadiusOf(placed), deg),
         label |-> BODY_GLYPHS[i], degMin |-> degToDegMin(degInSign)]

\* the counter advanced for skipped entries too
RECURSIVE PlaceFromCountingSkips(_, _, _, _, _)
PlaceFromCountingSkips(b, rt, i, placed, pts) ==
    IF i > Len(BODY_ORDER) THEN pts
    ELSE LET d == b[BODY_ORDER[i]]
         IN  IF Skipped(d) THEN PlaceFromCountingSkips(b, rt, i + 1, placed + 1, pts)
             ELSE PlaceFromCountingSkips(b, rt, i + 1, placed + 1,
                                         Append(pts, PointOf(i, d, placed, rt)))

\* the points collected in the reverse of the canonical order
RECURSIVE PlaceFromReversed(_, _, _, _, _)
PlaceFromReversed(b, rt, i, placed, pts) ==
    IF i > Len(BODY_ORDER) THEN pts
    ELSE LET d == b[BODY_ORDER[i]]
         IN  IF Skipped(d) THEN PlaceFromReversed(b, rt, i + 1, placed, pts)
             ELSE PlaceFromReversed(b, rt, i + 1, placed + 1,
                                    << PointOf(i, d, placed, rt) >> \o pts)

RECURSIVE PlaceFrom(_, _, _, _, _)
PlaceFrom(b, rt, i, placed, pts) ==
    IF i > Len(BODY_ORDER) THEN pts
    ELSE LET d == b[BODY_ORDER[i]]
         IN  IF Skipped(d) THEN PlaceFrom(b, rt, i + 1, placed, pts)
             ELSE PlaceFrom(b, rt, i + 1, placed + 1, Append(pts, PointOf(i, d, placed, rt)))

PlanetPointsOf(b, rt) == PlaceFrom(b, rt, 1, 0, << >>)

\* the Map from name to { x, y, lon }: a later set() of a name replaces an earlier
PointByNameOf(pts) ==
    [n \in {pts[i].name : i \in 1..Len(pts)} |->
        LET i == CHOOSE j \in 1..Len(pts) :
                    pts[j].name = n /\ \A k \in (j + 1)..Len(pts) : pts[k].name # n
        IN  [p |-> pts[i].p, lon |-> pts[i].lon]]

\* ------------------------------------------------------------------------
\* Aspect lines
\* ------------------------------------------------------------------------

maxLines == 30
maxOrb == 6 * Unit

\* Array.isArray(x) ? x : []
ArrayOrEmpty(a) == IF a.k = "arr" THEN a.items ELSE << >>

\* [...planetAs, ...otherAs]
MergedAspects(as) == ArrayOrEmpty(as.planet_aspects) \o ArrayOrEmpty(as.other_aspects)

\* !a?.p1 || !a?.p2 || !a?.aspect
Malformed(a) == a.k = "nil" \/ ~Truthy(a.p1) \/ ~Truthy(a.p2) \/ ~Truthy(a.aspect)

\* typeof a.orb === "number" ? a.orb : 999
OrbOf(a) == IF IsNumber(a.orb) THEN a.orb.n ELSE 999 * Unit

\* the threshold itself rejected
OrbTooWideStrict(a) == OrbOf(a) >= maxOrb

\* orb > maxOrb
OrbTooWide(a) == OrbOf(a) > maxOrb

\* every string a name can turn into, in the order of Array.prototype.sort
\* (by UTF-16 code unit: digits, then upper case, then lower case)
SortedStrings ==
    << "7", "ASC", "Asc", "Ceres", "Chiron", "DSC", "Fortune", "IC", "Jupiter", "Lilith",
       "MC", "Mars", "Mercury", "Moon", "Neptune", "Pluto", "Saturn", "Sun", "TrueNode",
       "Uranus", "Venus", "Vertex" >>

StrRank(x) == CHOOSE i \in 1..Len(SortedStrings) : SortedStrings[i] = x

\* the sort left out
SortPairUnsorted(x, y) == << x, y >>

\* [x, y].sort(): compared as strings, equal elements keep their order
SortPair(x, y) ==
    IF StrRank(ToStr(y)) < StrRank(ToStr(x)) THEN << y, x >> ELSE << x, y >>

\* [a.p1, a.p2].sort().join("|") + "|" + a.aspect
KeyRaw(a) ==
    LET s == SortPair(a.p1, a.p2)
    IN  ToStr(s[1]) \o "|" \o ToStr(s[2]) \o "|" \o ToStr(a.aspect)

\* pointByName.get(v): only a string can be a key of the map
Lookup(byName, v) == IF v.t = "str" /\ v.s \in DOMAIN byName THEN << byName[v.s] >> ELSE << >>

\* aspect.toLowerCase() of the aspect types of the model
ToLower(x) ==
    CASE x = "Square" -> "square"
      [] x = "OPPOSITION" -> "opposition"
      [] OTHER -> x

\* widths in tenths, opacities in hundredths
\* the two bright styles exchanged
aspectStyleExchanged(aspect) ==
    LET a == ToLower(aspect)
        harmonious == a = "trine" \/ a = "sextile"
        challenging == a = "square" \/ a = "opposition"
    IN  IF harmonious THEN [stroke |-> "#9f7cff", width |-> 28, opacity |-> 87]
        ELSE IF challenging THEN [stroke |-> "#ff86b8", width |-> 28, opacity |-> 87]
        ELSE [stroke |-> "#d8c8ff", width |-> 24, opacity |-> 55]

aspectStyle(aspect) ==
    LET a == ToLower(aspect)
        harmonious == a = "trine" \/ a = "sextile"
        challenging == a = "square" \/ a = "opposition"
    IN  IF harmonious THEN [stroke |-> "#ff86b8", width |-> 28, opacity |-> 87]
        ELSE IF challenging THEN [stroke |-> "#9f7cff", width |-> 28, opacity |-> 87]
        ELSE [stroke |-> "#d8c8ff", width |-> 24, opacity |-> 55]

\* the chord drawn at the raw longitudes, the rotation left out
ChordOfUnrotated(a, p1, p2, rt) ==
    LET d1 == wrap360(p1.lon)
        d2 == wrap360(p2.lon)
        st == aspectStyle(a.aspect.s)
    IN  [key |-> KeyRaw(a),
         q1 |-> polar(cx, cy, R_ASPECT_DRAW, d1),
         q2 |-> polar(cx, cy, R_ASPECT_DRAW, d2),
         stroke |-> st.stroke, width |-> st.width, opacity |-> st.opacity]

\* the chord pushed for entry a between the looked-up points p1 and p2
ChordOf(a, p1, p2, rt) ==
    LET d1 == wrap360(p1.lon + rt)
        d2 == wrap360(p2.lon + rt)
        st == aspectStyle(a.aspect.s)
    IN  [key |-> KeyRaw(a),
         q1 |-> polar(cx, cy, R_ASPECT_DRAW, d1),
         q2 |-> polar(cx, cy, R_ASPECT_DRAW, d2),
         stroke |-> st.stroke, width |-> st.width, opacity |-> st.opacity]

\* the cap tested one push too late
CapReachedLate(o) == Len(o) > maxLines

\* out.length >= maxLines
CapReached(o) == Len(o) >= maxLines

\* ------------------------------------------------------------------------
\* The charts a render is given
\* ------------------------------------------------------------------------

GoodCusps == Arr(CuspSeq(12, 100))
NoPoints == ObjGroup(NoBodies)
DroppedMars == ObjGroup([BasePlanets EXCEPT !["Mars"] = Rec(Deg(40), Bool(FALSE), Nil)])
NoSun == ObjGroup([BasePlanets EXCEPT !["Sun"] = Missing])

\* the ascendant sources, over fixed bodies and aspects
AscCharts ==
    {Chart(Houses(a, GoodCusps, NilArr), ObjGroup(BasePlanets), WithAsc(NoPoints, pa, pA),
           BaseAspects) :
        a \in AscendantValues, pa \in PointAscValues, pA \in PointASCValues}
    \cup {Chart(NilHouses, ObjGroup(BasePlanets), WithAsc(g, pa, pA), BaseAspects) :
        g \in {NoPoints, NilGroup}, pa \in PointAscValues, pA \in PointASCValues}

\* the cusps fields, with and without a rotation
HouseCharts ==
    {Chart(Houses(a, cf[1], cf[2]), ObjGroup(BasePlanets), NoPoints, BaseAspects) :
        a \in {Nil, Deg(100)}, cf \in CuspFields}

\* the two body groups, with and without a rotation, over a few aspect shapes
BodyCharts ==
    {Chart(Houses(a, GoodCusps, NilArr), pl, po, as) :
        a \in {Nil, Deg(100)}, pl \in PlanetGroups, po \in PointGroups,
        as \in {Split(TailList(6), 3), NilAspects, Aspects(NotArr, Arr(TailList(3)))}}

\* every short aspect list, cut every way, over two body groups
AspectCharts ==
    {Chart(Houses(Deg(100), GoodCusps, NilArr), pl, NoPoints, as) :
        pl \in {ObjGroup(BasePlanets), DroppedMars},
        as \in UNION {Splits(l) : l \in FreeLists}}

\* long lists around the cap: at most one free entry, then generated entries
CapLists ==
    {f \o TailList(n) :
        f \in {l \in FreeLists : Len(l) <= 1},
        n \in {maxLines - 1, maxLines, maxLines + TailExtra}}

CapCharts ==
    {Chart(Houses(Deg(100), GoodCusps, NilArr), pl, NoPoints, as) :
        pl \in {ObjGroup(BasePlanets), NoSun},
        as \in UNION {Splits(l) \cup {Split(l, maxLines \div 2)} : l \in CapLists}}

\* the worked chart: ascendant 100, cusps 100, 130, ..., Sun at 10, Moon at 200,
\* one primary aspect Sun-Moon, square, orb 4
SunMoon ==
    [n \in Names |->
        CASE n = "Sun" -> Rec(Deg(10), Nil, Nil)
          [] n = "Moon" -> Rec(Deg(200), Nil, Nil)
          [] OTHER -> Missing]

WorkedChart ==
    Chart(Houses(Deg(100), GoodCusps, NilArr), ObjGroup(SunMoon), NilGroup,
          Aspects(Arr(<< Edge(Str("Sun"), Str("Moon"), Str("square"), Deg(4)) >>), NilArr))

\* degrees into the sign around the minute carry, the half minute and zero
LabelBodies ==
    {[BasePlanets EXCEPT
        !["Sun"] = Rec(sunLon, Nil, sunDis),
        !["Moon"] = Rec(Deg(200), Nil, Num(29 * Unit + Unit - Unit \div 200)),
        !["Venus"] = Rec(Deg(95), Nil, Num(5 * Unit + Unit \div 8)),
        !["Mars"] = Rec(Deg(-20), Nil, marsDis)] :
        sunLon \in {Num(59 * Unit + Unit - 1), Num(-1), Num(29 * Unit + Unit - Unit \div 100)},
        sunDis \in {Nil, Num(0), Num(12 * Unit + Unit \div 120)},
        marsDis \in {Nil, Num(-Half), Num(30 * Unit)}}

LabelCharts ==
    {Chart(Houses(a, GoodCusps, NilArr), ObjGroup(b), NoPoints, BaseAspects) :
        a \in {Nil, Deg(100)}, b \in LabelBodies}

\* visible bodies with numeric longitudes under names outside BODY_ORDER, and
\* aspects naming them
UnlistedPoints == ObjGroup([NoBodies EXCEPT !["ASC"] = Rec(Deg(120), Bool(TRUE), Nil)])

UnlistedEdges ==
    << Edge(Str("Sun"), Str("Ceres"), Str("trine"), Deg(1)),
       Edge(Str("Ceres"), Str("ASC"), Str("square"), Deg(2)),
       Edge(Str("ASC"), Str("Moon"), Str("sextile"), Deg(0)),
       Edge(Str("Sun"), Str("Moon"), Str("trine"), Deg(1)) >>

UnlistedCharts ==
    {Chart(Houses(a, GoodCusps, NilArr), ObjGroup(BasePlanets), UnlistedPoints, as) :
        a \in {Nil, Deg(100)}, as \in Splits(UnlistedEdges)}

Charts ==
    AscCharts \cup HouseCharts \cup BodyCharts \cup AspectCharts \cup CapCharts
    \cup LabelCharts \cup {WorkedChart} \cup UnlistedCharts

\* ------------------------------------------------------------------------
\* Numbers as doubles near zero
\* ------------------------------------------------------------------------

\* A double is n steps of 1/Unit degree, or, when n = 0, a non-zero magnitude
\* far below the spacing of the doubles at 1/Unit (such as 1e-30) with the sign
\* e: adding it to a non-zero model number rounds back to that number.
Dbl(n) == [n |-> n, e |-> 0]
Tiny(e) == [n |-> 0, e |-> e]

Sign(k) == IF k > 0 THEN 1 ELSE IF k < 0 THEN -1 ELSE 0

\* x + y, rounded to the nearest double
DblAdd(x, y) ==
    IF x.n + y.n # 0 THEN Dbl(x.n + y.n) ELSE Tiny(Sign(x.e + y.e))

DblMinus(x) == [n |-> -x.n, e |-> -x.e]

DblNegative(x) == x.n < 0 \/ (x.n = 0 /\ x.e < 0)

\* d % 360 is exact and keeps the sign of d
DblRem360(d) == [n |-> JsRem(d.n, 360 * Unit), e |-> d.e]

\* wrap360 on doubles: x < 0 ? x + 360 : x
wrap360Double(d) ==
    LET x == DblRem360(d)
    IN  IF DblNegative(x) THEN DblAdd(x, Dbl(360 * Unit)) ELSE x

\* ascDeg: typeof asc === "number" ? wrap360(asc) : null, << >> standing for null
AscDegDouble(asc) == IF asc = << >> THEN << >> ELSE << wrap360Double(asc[1]) >>

\* rot: ascDeg == null ? 0 : wrap360(270 - ascDeg)
RotDouble(a) ==
    IF a = << >> THEN Dbl(0)
    ELSE wrap360Double(DblAdd(Dbl(270 * Unit), DblMinus(a[1])))

\* the longitudes and cusps the wrap is applied to
WrapLongitudes ==
    {Tiny(-1), Tiny(1), Dbl(0), Dbl(-1), Dbl(360 * Unit - 1), Dbl(365 * Unit + Half)}
    \cup {Dbl(d * Unit) : d \in {10, -20, 200, 360, -360, 720, -725}}

WrapAscendants ==
    {<< >>} \cup {<< a >> : a \in {Tiny(-1), Tiny(1), Dbl(0), Dbl(100 * Unit),
                                    Dbl(270 * Unit), Dbl(-30 * Unit), Dbl(725 * Unit)}}

\* ------------------------------------------------------------------------
\* Charts rendered one after another
\* ------------------------------------------------------------------------

\* how many times the component is rendered again
MaxRerenders == 2

TwiceCharts ==
    {WorkedChart,
     Chart(Houses(Deg(100), GoodCusps, NilArr), ObjGroup(BasePlanets), NoPoints,
           Aspects(Arr(<< Edge(Str("Sun"), Str("Moon"), Str("trine"), Deg(2)),
                          Edge(Str("Moon"), Str("Sun"), Str("trine"), Deg(3)),
                          NilEdge,
                          Edge(Str("Sun"), Str("Mars"), Str("square"), Num(6 * Unit + Tenth)),
                          Edge(Str("Sun"), Str("Ceres"), Str("trine"), Deg(1)) >>),
                   Arr(TailList(3)))),
     Chart(Houses(Deg(100), GoodCusps, NilArr), ObjGroup(BasePlanets), NoPoints,
           Aspects(Arr(<< Edge(Str("Sun"), Str("Moon"), Str("trine"), Deg(2)),
                          Edge(Str("Sun"), Str("Moon"), Num(90), Deg(1)) >>), NilArr)),
     Chart(NilHouses, DroppedMars, UnlistedPoints, Split(TailList(6), 3))}

\* ------------------------------------------------------------------------
\* One render as a state machine
\* ------------------------------------------------------------------------

VARIABLES
    chart,          \* the input record
    pc,             \* the stage the render is at
    ascDeg,         \* normalizer: Num(wrapped ascendant) or Nil
    cusps,          \* normalizer: the finite numbers of the cusps array
    bodies,         \* normalizer: the merged body records
    aspects,        \* normalizer: the aspects object
    rot,            \* the rotation
    signLines,
    signLabels,
    houseLines,
    ascLine,        \* << >> for null, else one record
    planetPoints,
    pointByName,
    merged,         \* aspectLines: [...planetAs, ...otherAs]
    at,             \* aspectLines: index of the entry the for-of loop is at
    seen,           \* aspectLines: the Set of keys
    out,            \* aspectLines: the chords pushed so far
    renders,        \* the renders finished so far: the chart given and what came of it
    wAsc,           \* wrap: the ascendant, << >> for none
    wL,             \* wrap: the longitude or cusp
    wpc,            \* wrap: the step the computation is at
    wRot,           \* wrap: the rotation
    wOut            \* wrap: what was computed and the angle it gave

vars ==
    << chart, pc, ascDeg, cusps, bodies, aspects, rot, signLines, signLabels, houseLines,
       ascLine, planetPoints, pointByName, merged, at, seen, out,
       renders, wAsc, wL, wpc, wRot, wOut >>

normVars == << ascDeg, cusps, bodies, aspects >>
sceneVars == << signLines, signLabels, houseLines, ascLine, planetPoints, pointByName >>
loopVars == << merged, at, seen, out >>
wrapVars == << wAsc, wL, wpc, wRot, wOut >>
renderVars == << chart, pc, normVars, rot, sceneVars, loopVars >>

\* nothing computed yet
Blank ==
    /\ pc = "normalize"
    /\ ascDeg = Nil
    /\ cusps = << >>
    /\ bodies = NoBodies
    /\ aspects = Aspects(NilArr, NilArr)
    /\ rot = 0
    /\ signLines = << >>
    /\ signLabels = << >>
    /\ houseLines = << >>
    /\ ascLine = << >>
    /\ planetPoints = << >>
    /\ pointByName = << >>
    /\ merged = << >>
    /\ at = 1
    /\ seen = {}
    /\ out = << >>

\* no wrap computation
WrapIdle ==
    /\ wAsc = << >>
    /\ wL = Dbl(0)
    /\ wpc = "idle"
    /\ wRot = Dbl(0)
    /\ wOut = [kind |-> "none", angle |-> Dbl(0)]

Init ==
    /\ chart \in Charts
    /\ Blank
    /\ renders = << >>
    /\ WrapIdle

Normalize ==
    /\ pc = "normalize"
    /\ ascDeg' = AscDegOf(chart)
    /\ cusps' = CuspsOf(chart)
    /\ bodies' = MergedOf(chart)
    /\ aspects' = AspectsObjOf(chart)
    /\ pc' = "rot"
    /\ UNCHANGED << renders, wrapVars, chart, rot, sceneVars, loopVars >>

Rotation ==
    /\ pc = "rot"
    /\ rot' = RotOf(ascDeg)
    /\ pc' = "signLines"
    /\ UNCHANGED << renders, wrapVars, chart, normVars, sceneVars, loopVars >>

SignLines ==
    /\ pc = "signLines"
    /\ signLines' = SignLinesOf(rot)
    /\ pc' = "signLabels"
    /\ UNCHANGED << renders, wrapVars, chart, normVars, rot, signLabels, houseLines, ascLine, planetPoints,
                    pointByName, loopVars >>

SignLabels ==
    /\ pc = "signLabels"
    /\ signLabels' = SignLabelsOf(rot)
    /\ pc' = "houseLines"
    /\ UNCHANGED << renders, wrapVars, chart, normVars, rot, signLines, houseLines, ascLine, planetPoints,
                    pointByName, loopVars >>

HouseLines ==
    /\ pc = "houseLines"
    /\ houseLines' = HouseLinesOf(cusps, rot)
    /\ pc' = "ascLine"
    /\ UNCHANGED << renders, wrapVars, chart, normVars, rot, signLines, signLabels, ascLine, planetPoints,
                    pointByName, loopVars >>

AscLine ==
    /\ pc = "ascLine"
    /\ ascLine' = AscLineOf(ascDeg, rot)
    /\ pc' = "planetPoints"
    /\ UNCHANGED << renders, wrapVars, chart, normVars, rot, signLines, signLabels, houseLines, planetPoints,
                    pointByName, loopVars >>

PlanetPoints ==
    /\ pc = "planetPoints"
    /\ planetPoints' = PlanetPointsOf(bodies, rot)
    /\ pc' = "pointByName"
    /\ UNCHANGED << renders, wrapVars, chart, normVars, rot, signLines, signLabels, houseLines, ascLine,
                    pointByName, loopVars >>

\* the Set of keys kept from the render before, as if it were created outside
\* the component
PointByNameKeepingSeen ==
    /\ pc = "pointByName"
    /\ pointByName' = PointByNameOf(planetPoints)
    /\ merged' = MergedAspects(aspects)
    /\ at' = 1
    /\ seen' = seen
    /\ out' = << >>
    /\ pc' = "aspectLines"
    /\ UNCHANGED << renders, wrapVars, chart, normVars, rot, signLines, signLabels, houseLines,
                    ascLine, planetPoints >>

\* the pointByName memo, and the entry of aspectLines up to its for-of loop
PointByName ==
    /\ pc = "pointByName"
    /\ pointByName' = PointByNameOf(planetPoints)
    /\ merged' = MergedAspects(aspects)
    /\ at' = 1
    /\ seen' = {}
    /\ out' = << >>
    /\ pc' = "aspectLines"
    /\ UNCHANGED << renders, wrapVars, chart, normVars, rot, signLines, signLabels, houseLines, ascLine,
                    planetPoints >>

\* --- one iteration of for (const a of merged), by the way it ends
InLoop == pc = "aspectLines" /\ at <= Len(merged)

Continue ==
    /\ at' = at + 1
    /\ UNCHANGED << renders, wrapVars, chart, pc, normVars, rot, sceneVars, merged, out >>

\* a bad entry: continue
SkipMalformed ==
    /\ InLoop
    /\ Malformed(merged[at])
    /\ seen' = seen
    /\ Continue

\* orb > maxOrb: continue
SkipOrb ==
    /\ InLoop
    /\ ~Malformed(merged[at])
    /\ OrbTooWide(merged[at])
    /\ seen' = seen
    /\ Continue

\* seen.has(keyRaw): continue
SkipSeen ==
    /\ InLoop
    /\ ~Malformed(merged[at])
    /\ ~OrbTooWide(merged[at])
    /\ KeyRaw(merged[at]) \in seen
    /\ seen' = seen
    /\ Continue

Fresh(a) == ~Malformed(a) /\ ~OrbTooWide(a) /\ KeyRaw(a) \notin seen

BothPlaced(a) == Lookup(pointByName, a.p1) # << >> /\ Lookup(pointByName, a.p2) # << >>

\* !p1 || !p2: the key is recorded, then continue
SkipUnplaced ==
    /\ InLoop
    /\ Fresh(merged[at])
    /\ ~BothPlaced(merged[at])
    /\ seen' = seen \cup {KeyRaw(merged[at])}
    /\ Continue

\* aspectStyle(a.aspect) calls toLowerCase on a value that is no string: a TypeError
\* leaves the render
Throw ==
    /\ InLoop
    /\ Fresh(merged[at])
    /\ BothPlaced(merged[at])
    /\ merged[at].aspect.t # "str"
    /\ seen' = seen \cup {KeyRaw(merged[at])}
    /\ pc' = "threw"
    /\ UNCHANGED << renders, wrapVars, chart, normVars, rot, sceneVars, merged, at, out >>

\* out.push(...), then break when the cap is reached
Emit ==
    /\ InLoop
    /\ Fresh(merged[at])
    /\ BothPlaced(merged[at])
    /\ merged[at].aspect.t = "str"
    /\ LET a == merged[at]
           p1 == Lookup(pointByName, a.p1)[1]
           p2 == Lookup(pointByName, a.p2)[1]
       IN  out' = Append(out, ChordOf(a, p1, p2, rot))
    /\ seen' = seen \cup {KeyRaw(merged[at])}
    /\ at' = at + 1
    /\ pc' = IF CapReached(out') THEN "done" ELSE "aspectLines"
    /\ UNCHANGED << renders, wrapVars, chart, normVars, rot, sceneVars, merged >>

\* the loop ran out of entries: return out
Return ==
    /\ pc = "aspectLines"
    /\ at > Len(merged)
    /\ pc' = "done"
    /\ UNCHANGED << renders, wrapVars, chart, normVars, rot, sceneVars, loopVars >>

Next ==
    \/ Normalize
    \/ Rotation
    \/ SignLines
    \/ SignLabels
    \/ HouseLines
    \/ AscLine
    \/ PlanetPoints
    \/ PointByName
    \/ SkipMalformed
    \/ SkipOrb
    \/ SkipSeen
    \/ SkipUnplaced
    \/ Throw
    \/ Emit
    \/ Return

Spec == Init /\ [][Next]_vars

\* ------------------------------------------------------------------------
\* The component rendered again
\* ------------------------------------------------------------------------

\* what a finished render hands to the drawing code: nothing when it threw
SceneOf ==
    IF pc = "threw" THEN << >>
    ELSE << [rot |-> rot, signLines |-> signLines, signLabels |-> signLabels,
             houseLines |-> houseLines, ascLine |-> ascLine,
             planetPoints |-> planetPoints, aspectLines |-> out] >>

\* the component is called again, with any chart: every value of the last
\* render is still there until its stage computes it anew
Rerender ==
    /\ pc \in {"done", "threw"}
    /\ Len(renders) < MaxRerenders
    /\ renders' = Append(renders, [chart |-> chart, scene |-> SceneOf])
    /\ chart' \in TwiceCharts
    /\ pc' = "normalize"
    /\ UNCHANGED << wrapVars, normVars, rot, sceneVars, loopVars >>

InitTwice ==
    /\ chart \in TwiceCharts
    /\ Blank
    /\ renders = << >>
    /\ WrapIdle

NextTwice == Next \/ Rerender

SpecTwice == InitTwice /\ [][NextTwice]_vars

\* ------------------------------------------------------------------------
\* wrap360 and the draw angles on doubles
\* ------------------------------------------------------------------------

InitWrap ==
    /\ chart = WorkedChart
    /\ Blank
    /\ renders = << >>
    /\ wAsc \in WrapAscendants
    /\ wL \in WrapLongitudes
    /\ wpc = "rot"
    /\ wRot = Dbl(0)
    /\ wOut = [kind |-> "none", angle |-> Dbl(0)]

Drawn(kind, angle) ==
    /\ wpc = "draw"
    /\ wOut' = [kind |-> kind, angle |-> angle]
    /\ wpc' = "drawn"
    /\ UNCHANGED << renderVars, renders, wAsc, wL, wRot >>

\* ascDeg and rot
WrapRotation ==
    /\ wpc = "rot"
    /\ wRot' = RotDouble(AscDegDouble(wAsc))
    /\ wpc' = "draw"
    /\ UNCHANGED << renderVars, renders, wAsc, wL, wOut >>

\* wrap360(L) itself
WrapLongitude == Drawn("wrap360", wrap360Double(wL))

\* wrap360(i * 30 + rot)
WrapSignLine == \E i \in 0..11 : Drawn("signLine", wrap360Double(DblAdd(Dbl(i * 30 * Unit), wRot)))

\* wrap360(i * 30 + 15 + rot)
WrapSignLabel ==
    \E i \in 0..11 : Drawn("signLabel", wrap360Double(DblAdd(Dbl((i * 30 + 15) * Unit), wRot)))

\* wrap360(c + rot)
WrapHouseLine == Drawn("houseLine", wrap360Double(DblAdd(wL, wRot)))

\* wrap360(lon + rot)
WrapBody == Drawn("body", wrap360Double(DblAdd(wL, wRot)))

NextWrap ==
    \/ WrapRotation
    \/ WrapLongitude
    \/ WrapSignLine
    \/ WrapSignLabel
    \/ WrapHouseLine
    \/ WrapBody

SpecWrap == InitWrap /\ [][NextWrap]_vars

\* ------------------------------------------------------------------------
\* Properties
\* ------------------------------------------------------------------------

StageRank ==
    CASE pc = "normalize" -> 0
      [] pc = "rot" -> 1
      [] pc = "signLines" -> 2
      [] pc = "signLabels" -> 3
      [] pc = "houseLines" -> 4
      [] pc = "ascLine" -> 5
      [] pc = "planetPoints" -> 6
      [] pc = "pointByName" -> 7
      [] pc = "aspectLines" -> 8
      [] pc = "done" -> 9
      [] pc = "threw" -> 9

\* the names body placement has placed
PlacedNames == {planetPoints[i].name : i \in 1..Len(planetPoints)}

\* C1: house lines are drawn only when the input cusps array has exactly 12
\* elements: an input array of any other length gives no house line, and the
\* number of house lines is always 0 or 12.
C1_HouseGating ==
    StageRank > 4 =>
        /\ Len(houseLines) \in {0, 12}
        /\ LET input == CuspsArrOf(chart)
           IN  (input.k = "arr" /\ Len(input.items) # 12) => Len(houseLines) = 0

\* C2: computing the layout never fails, whatever the types of the input's fields.
C2_NeverFails == pc # "threw"

C3_Sources ==
    << chart.houses.ascendant, GetLon(chart.points, "Asc"), GetLon(chart.points, "ASC") >>

C3_FirstNumeric ==
    LET hits == {i \in 1..3 : IsNumber(C3_Sources[i])}
    IN  IF hits = {} THEN Nil
        ELSE C3_Sources[CHOOSE i \in hits : \A j \in hits : i <= j]

\* C3: the ascendant is the first numeric value among houses.ascendant,
\* points.Asc.lon and points.ASC.lon, a non-numeric source not stopping the
\* search; with no numeric source the rotation is 0 and there is no ASC line.
C3_FirstNumericWins ==
    /\ StageRank > 0 =>
          ascDeg = (IF IsNumber(C3_FirstNumeric) THEN Num(wrap360(C3_FirstNumeric.n)) ELSE Nil)
    /\ (StageRank > 5 /\ ~IsNumber(C3_FirstNumeric)) => (rot = 0 /\ ascLine = << >>)

\* C4: for every numeric ascendant A, wrap360(rotation + A) = 270, and the ASC
\* line is drawn at angle 270.
C4_RotationConsistency ==
    (StageRank > 5 /\ IsNumber(AscOf(chart))) =>
        /\ wrap360(rot + AscOf(chart).n) = 270 * Unit
        /\ Len(ascLine) = 1
        /\ ascLine[1].deg = 270 * Unit

C4_Witness ==
    /\ pc = "done"
    /\ IsNumber(AscOf(chart))
    /\ AscOf(chart).n < 0
    /\ Len(ascLine) = 1

\* --- the aspect loop, in the words of the claims

\* an entry the loop reads names and an aspect type from
C_WellFormed(a) == a.k = "obj" /\ Truthy(a.p1) /\ Truthy(a.p2) /\ Truthy(a.aspect)

\* an entry that passes the orb filter
C_PassesOrb(a) == C_WellFormed(a) /\ a.orb.t = "num" /\ a.orb.n <= 6 * Unit

\* the same unordered pair of names with the same aspect type
C_SameRelation(a, b) == {a.p1, a.p2} = {b.p1, b.p2} /\ a.aspect = b.aspect

\* no earlier entry that passes the orb filter states the relation of entry i
C_FirstOfRelation(i) ==
    \A j \in 1..(i - 1) : ~(C_PassesOrb(merged[j]) /\ C_SameRelation(merged[j], merged[i]))

C_NamesPlaced(a) ==
    /\ a.p1.t = "str" /\ a.p1.s \in PlacedNames
    /\ a.p2.t = "str" /\ a.p2.s \in PlacedNames

\* this step pushes a chord
C_Emits == Len(out') = Len(out) + 1

C5_Step ==
    C_Emits => (C_PassesOrb(merged[at]) /\ C_FirstOfRelation(at))

\* C5: over the primary list followed by the secondary list, a chord is emitted
\* only for the first entry, among those passing the orb filter, that states its
\* unordered pair of names with its aspect type; so no two chords share both.
C5_AspectDedup == [][C5_Step]_vars

C5_Witness ==
    /\ pc = "done"
    /\ aspects.planet_aspects.items = << Edge(Str("Sun"), Str("Moon"), Str("trine"), Deg(2)) >>
    /\ aspects.other_aspects.items = << Edge(Str("Moon"), Str("Sun"), Str("trine"), Deg(3)) >>
    /\ Len(out) = 1

C6_Step ==
    /\ C_Emits => (merged[at].orb.t = "num" /\ merged[at].orb.n <= 6 * Unit)
    /\ ( /\ InLoop
         /\ C_WellFormed(merged[at])
         /\ merged[at].orb = Num(6 * Unit)
         /\ merged[at].aspect.t = "str"
         /\ C_NamesPlaced(merged[at])
         /\ C_FirstOfRelation(at) ) => C_Emits

\* C6: an entry produces a chord only if its orb is a number of at most 6.0; an
\* entry of orb exactly 6.0 between two placed bodies (the first of its relation,
\* with a text aspect type) is emitted.
C6_OrbFilter == [][C6_Step]_vars

C6_Witness ==
    /\ pc = "done"
    /\ merged = << Edge(Str("Moon"), Str("Sun"), Str("trine"), Num(6 * Unit + Tenth)),
                   Edge(Str("Sun"), Str("Moon"), Str("Square"), Deg(6)) >>
    /\ Len(out) = 1
    /\ out[1].key = "Moon|Sun|Square"

\* entry i survives the orb filter, deduplication and endpoint lookup
C7_Candidate(i) ==
    C_PassesOrb(merged[i]) /\ C_FirstOfRelation(i) /\ C_NamesPlaced(merged[i])

\* the candidates' indices, in input order
C7_Candidates == SelectSeq([i \in 1..Len(merged) |-> i], C7_Candidate)

\* C7: never more than 30 chords; the chords of the scene are the first 30
\* candidates, in input order.
C7_CapAndOrder ==
    /\ Len(out) <= 30
    /\ pc = "done" =>
          LET c == C7_Candidates
              n == Min(Len(c), 30)
          IN  /\ Len(out) = n
              /\ \A k \in 1..n : out[k].key = KeyRaw(merged[c[k]])

C7_Witness ==
    /\ pc = "done"
    /\ Len(out) = 30
    /\ Len(C7_Candidates) > 30
    /\ Len(aspects.planet_aspects.items) > 0
    /\ Len(aspects.other_aspects.items) > 0

\* the draw angle of a placed body
C8_DrawAngle(name) ==
    LET i == CHOOSE j \in 1..Len(planetPoints) : planetPoints[j].name = name
    IN  planetPoints[i].p.a

C8_Step ==
    /\ C_Emits =>
          LET a == merged[at]
              c == out'[Len(out')]
          IN  /\ C_NamesPlaced(a)
              /\ c.q1.a = C8_DrawAngle(a.p1.s)
              /\ c.q2.a = C8_DrawAngle(a.p2.s)
              /\ c.q1.a + 90 * Unit = wrap360(bodies[a.p1.s].lon.n + rot)
              /\ c.q2.a + 90 * Unit = wrap360(bodies[a.p2.s].lon.n + rot)
    /\ (InLoop /\ merged[at].k = "obj" /\ ~C_NamesPlaced(merged[at])) =>
          (out' = out /\ pc' = "aspectLines" /\ at' = at + 1)

\* C8: a chord joins two placed bodies at their draw angles
\* wrap360(longitude + rotation); an entry naming a body that was not placed
\* pushes nothing, raises nothing and lets the loop go on to the next entry.
C8_ChordEndpoints == [][C8_Step]_vars

C8_Witness ==
    /\ pc = "done"
    /\ rot # 0
    /\ merged = << Edge(Str("Sun"), Str("Ceres"), Num(90), Deg(1)),
                   Edge(Str("Sun"), Str("Moon"), Str("trine"), Deg(2)) >>
    /\ Len(out) = 1

\* C9: the k-th placed body (k from 0, over placed bodies only) has radius
\* 245 - (k mod 3) * 12: four placed bodies get 245, 233, 221, 245, and two
\* consecutive placed bodies never share a radius.
C9_RadiusCycle ==
    StageRank > 6 =>
        /\ \A k \in 1..Len(planetPoints) : planetPoints[k].p.r = 245 - ((k - 1) % 3) * 12
        /\ \A k \in 1..(Len(planetPoints) - 1) : planetPoints[k].p.r # planetPoints[k + 1].p.r
        /\ Len(planetPoints) = 4 =>
              [k \in 1..4 |-> planetPoints[k].p.r] = << 245, 233, 221, 245 >>

C9_Witness ==
    /\ pc = "done"
    /\ Len(planetPoints) = 4
    /\ planetPoints[2].name = "Moon"
    /\ planetPoints[3].name = "Venus"
    /\ planetPoints[4].p.r = 245

\* the records the input gives for a name, in planets and in points
C10_InputRecords(n) ==
    {g.m[n] : g \in {h \in {chart.planets, chart.points} : h.k = "obj" /\ h.m[n].k = "rec"}}

\* C10 as stated: a body with an input record that lacks a numeric longitude or
\* is marked available = false is never placed.
C10_HiddenNeverPlaced ==
    StageRank > 6 =>
        \A n \in Names :
            (\E r \in C10_InputRecords(n) : ~IsNumber(r.lon) \/ r.available = Bool(FALSE))
                => n \notin PlacedNames

\* the name is a key of the points group
C10_InPoints(n) == chart.points.k = "obj" /\ chart.points.m[n].k # "missing"

\* the record that counts for a name: the points entry when there is one,
\* else the planets entry
C10_Record(n) ==
    IF C10_InPoints(n) THEN chart.points.m[n]
    ELSE IF chart.planets.k = "obj" THEN chart.planets.m[n]
    ELSE Missing

\* no numeric longitude in the record that counts, or a planets record
\* (with no points entry over it) marked available = false
C10_Excluded(n) ==
    \/ C10_Record(n).k # "rec"
    \/ ~IsNumber(C10_Record(n).lon)
    \/ ~C10_InPoints(n) /\ C10_Record(n).available = Bool(FALSE)

\* how many bodies that are not excluded come before position i of BODY_ORDER
C10_Before(i) == Cardinality({j \in 1..(i - 1) : ~C10_Excluded(BODY_ORDER[j])})

C10_Position(name) == CHOOSE i \in 1..Len(BODY_ORDER) : BODY_ORDER[i] = name

C10_State ==
    /\ StageRank > 6 =>
          /\ \A n \in Names : C10_Excluded(n) => n \notin PlacedNames
          /\ \A k \in 1..Len(planetPoints) :
                planetPoints[k].p.r =
                    245 - (C10_Before(C10_Position(planetPoints[k].name)) % 3) * 12
    /\ StageRank > 7 => \A n \in Names : C10_Excluded(n) => n \notin DOMAIN pointByName

C10_Step ==
    C_Emits =>
        /\ merged[at].p1.t = "str" /\ ~C10_Excluded(merged[at].p1.s)
        /\ merged[at].p2.t = "str" /\ ~C10_Excluded(merged[at].p2.s)

\* C10, amended: a body is never placed (no anchor, no label, no step of the
\* placement counter, no chord ending at it) when the record that counts for
\* it - its points entry if it has one, else its planets entry - lacks a
\* numeric longitude, or when it has no points entry and its planets entry is
\* marked available = false.  A points entry marked available = false is
\* treated as visible.
C10_ExcludedNeverPlaced == []C10_State /\ [][C10_Step]_vars

C10_Witness ==
    /\ pc = "done"
    /\ chart.planets.k = "obj"
    /\ chart.planets.m["Mars"] = Rec(Deg(40), Bool(FALSE), Nil)
    /\ PlacedNames = {"Sun", "Moon", "Venus"}
    /\ planetPoints[3].p.r = 221
    /\ \E i \in 1..Len(merged) : C_PassesOrb(merged[i]) /\ merged[i].p2 = Str("Mars")
    /\ Len(out) = 3

\* the name is a key of both groups
C11_InBoth(n) ==
    /\ chart.planets.k = "obj" /\ chart.planets.m[n].k # "missing"
    /\ chart.points.k = "obj" /\ chart.points.m[n].k # "missing"

\* the point placed for a name
C11_Point(n) == planetPoints[CHOOSE i \in 1..Len(planetPoints) : planetPoints[i].name = n]

\* C11: for a name in both the planets group and the points group the points
\* record overrides the planets record: the body is placed at the points
\* longitude, not the planets one, and is treated as visible.
C11_PointsOverride ==
    StageRank > 6 =>
        \A n \in Names :
            C11_InBoth(n) =>
                /\ bodies[n].available = Bool(TRUE)
                /\ bodies[n].lon = chart.points.m[n].lon
                /\ n \in PlacedNames =>
                      /\ IsNumber(chart.points.m[n].lon)
                      /\ C11_Point(n).lon = chart.points.m[n].lon.n
                      /\ C11_Point(n).p.a + 90 * Unit = wrap360(chart.points.m[n].lon.n + rot)
                /\ ( /\ n \in {BODY_ORDER[i] : i \in 1..Len(BODY_ORDER)}
                     /\ chart.points.m[n].k = "rec"
                     /\ IsNumber(chart.points.m[n].lon) ) => n \in PlacedNames

C11_Witness ==
    /\ pc = "done"
    /\ C11_InBoth("Sun")
    /\ chart.planets.m["Sun"].lon = Deg(10)
    /\ chart.points.m["Sun"] = Rec(Deg(20), Bool(FALSE), Nil)
    /\ "Sun" \in PlacedNames
    /\ C11_Point("Sun").lon = 20 * Unit
    /\ rot # 0

\* the placed point of the worked chart with the given name
C12_Point(n) == planetPoints[CHOOSE i \in 1..Len(planetPoints) : planetPoints[i].name = n]

\* C12: for the worked chart (ascendant 100, twelve cusps 100, 130, ...,
\* Sun at longitude 10, Moon at longitude 200, one primary aspect Sun-Moon
\* square with orb 4) the rotation is 170, the Sun is drawn at angle 180, the
\* Moon at angle 10, there are 12 house lines, and exactly one chord is
\* emitted, in the challenging style, joining the Sun's and the Moon's
\* positions.
C12_WorkedExample ==
    (chart = WorkedChart /\ pc = "done") =>
        /\ rot = 170 * Unit
        /\ [i \in 1..Len(planetPoints) |-> planetPoints[i].name] = << "Sun", "Moon" >>
        /\ C12_Point("Sun").p.a + 90 * Unit = 180 * Unit
        /\ C12_Point("Moon").p.a + 90 * Unit = 10 * Unit
        /\ Len(houseLines) = 12
        /\ Len(out) = 1
        /\ out[1].stroke = "#9f7cff" /\ out[1].width = 28 /\ out[1].opacity = 87
        /\ out[1].q1.a = C12_Point("Sun").p.a
        /\ out[1].q2.a = C12_Point("Moon").p.a
        /\ out[1].q1.r = R_ASPECT_DRAW /\ out[1].q2.r = R_ASPECT_DRAW

C12_Witness ==
    /\ chart = WorkedChart
    /\ pc = "done"
    /\ Len(out) = 1
    /\ out[1].key = "Moon|Sun|square"

\* the degrees into the sign the label of a placed point is made from
C15_DegInSign(pt) ==
    LET d == bodies[pt.name]
    IN  IF IsNumber(d.deg_in_sign) THEN d.deg_in_sign.n
        ELSE wrap360(d.lon.n) % (30 * Unit)

\* the minutes nearest to a fraction of a degree, halves upwards
C15_Minutes(frac) ==
    CHOOSE m \in 0..60 : (2 * m - 1) * Unit <= 120 * frac /\ 120 * frac < (2 * m + 1) * Unit

C15_TwoDigits(m) == DigitStr(m \div 10) \o DigitStr(m % 10)

C15_Label(dv) ==
    LET f == CHOOSE k \in {dv \div Unit - 1, dv \div Unit, dv \div Unit + 1} :
                 k * Unit <= dv /\ dv < (k + 1) * Unit
        m == C15_Minutes(dv - f * Unit)
    IN  IF m = 60 THEN [deg |-> f + 1, min |-> "00"]
        ELSE [deg |-> f, min |-> C15_TwoDigits(m)]

\* C15: for the degrees-into-sign value d of every placed body (the supplied
\* value, or wrap360(longitude) mod 30 when absent) the label shows floor(d)
\* degrees and two-digit minutes round((d - floor(d)) * 60), a rounding to 60
\* carried into the next degree with minutes 00; the minutes shown are always
\* between 00 and 59.
C15_DegreeLabel ==
    StageRank > 6 =>
        \A i \in 1..Len(planetPoints) :
            /\ planetPoints[i].degMin = C15_Label(C15_DegInSign(planetPoints[i]))
            /\ planetPoints[i].degMin.min \in {C15_TwoDigits(m) : m \in 0..59}

C15_Witness ==
    /\ pc = "done"
    /\ \E i \in 1..Len(planetPoints) :
          /\ planetPoints[i].name = "Moon"
          /\ bodies["Moon"].deg_in_sign = Num(29 * Unit + Unit - Unit \div 200)
          /\ planetPoints[i].degMin = [deg |-> 30, min |-> "00"]
    /\ \E i \in 1..Len(planetPoints) :
          /\ planetPoints[i].name = "Sun"
          /\ bodies["Sun"] = Rec(Num(-1), Nil, Nil)
          /\ planetPoints[i].degMin = [deg |-> 30, min |-> "00"]
    /\ \E i \in 1..Len(planetPoints) :
          /\ planetPoints[i].name = "Mars"
          /\ planetPoints[i].degMin = [deg |-> -1, min |-> "30"]

\* the fixed canonical list of 19 names
C16_Canonical ==
    << "Sun", "Moon", "Mercury", "Venus", "Mars", "Jupiter", "Saturn", "Uranus",
       "Neptune", "Pluto", "TrueNode", "Lilith", "Chiron", "Vertex", "Fortune",
       "Asc", "MC", "DSC", "IC" >>

C16_Listed == {C16_Canonical[i] : i \in 1..Len(C16_Canonical)}

\* the position of a listed name in the canonical list
C16_Rank(n) == CHOOSE i \in 1..Len(C16_Canonical) : C16_Canonical[i] = n

\* the placed bodies are a subsequence of the canonical list: listed names at
\* strictly increasing positions
C16_State ==
    /\ Len(C16_Canonical) = 19
    /\ \A i \in 1..Len(planetPoints) : planetPoints[i].name \in C16_Listed
    /\ \A i, j \in 1..Len(planetPoints) :
          i < j => C16_Rank(planetPoints[i].name) < C16_Rank(planetPoints[j].name)

\* a chord is pushed only for an entry naming two listed bodies
C16_Step ==
    C_Emits =>
        /\ merged[at].p1.t = "str" /\ merged[at].p1.s \in C16_Listed
        /\ merged[at].p2.t = "str" /\ merged[at].p2.s \in C16_Listed

\* C16: the placed bodies are always a subsequence of the canonical 19-name
\* list, in that order and each name at most once; a visible input body with a
\* numeric longitude whose name is not in that list is never placed, and an
\* aspect naming it produces no chord.
C16_CanonicalOrder == []C16_State /\ [][C16_Step]_vars

C16_Witness ==
    /\ pc = "done"
    /\ Len(merged) = 4
    /\ bodies["Ceres"] = Rec(Deg(50), Nil, Nil)
    /\ bodies["ASC"] = Rec(Deg(120), Bool(TRUE), Nil)
    /\ [i \in 1..Len(planetPoints) |-> planetPoints[i].name] = << "Sun", "Moon", "Venus", "Mars" >>
    /\ "Ceres|Sun|trine" \in seen
    /\ "ASC|Ceres|square" \in seen
    /\ Len(out) = 1
    /\ out[1].key = "Moon|Sun|trine"

\* C13: the scene is a function of the chart alone: a render of a chart gives
\* the scene every earlier render of the same chart gave (rotation, sign lines
\* and labels, house lines, placed bodies, chords, each in the same order),
\* whatever was rendered in between.
C13_Deterministic ==
    pc \in {"done", "threw"} =>
        \A i \in 1..Len(renders) :
            renders[i].chart = chart => renders[i].scene = SceneOf

\* a chart rendered, another rendered after it, and the first rendered again
C13_Witness ==
    /\ pc = "done"
    /\ Len(renders) = 2
    /\ renders[1].chart = chart
    /\ renders[2].chart # chart
    /\ renders[2].scene # << >>
    /\ Len(out) >= 2
    /\ renders[1].scene[1].aspectLines = out

\* the angle is in [0, 360)
C14_InRange(x) == x.n >= 0 /\ x.n < 360 * Unit /\ ~DblNegative(x)

\* x and y differ by a multiple of 360
C14_Congruent(x, y) == (x.n - y.n) % (360 * Unit) = 0 /\ x.e = y.e

\* C14: for every longitude L, negative or above 360 included, wrap360(L) lies
\* in [0, 360) and differs from L by a multiple of 360; every draw angle of a
\* sign line, sign label, house line and body is in [0, 360).
C14_WrapInvariant ==
    wpc = "drawn" =>
        /\ C14_InRange(wOut.angle)
        /\ wOut.kind = "wrap360" => C14_Congruent(wOut.angle, wL)

\* on the numbers of the render model the two wraps agree
C14_AgreesOnRegular ==
    (wpc = "drawn" /\ wOut.kind = "wrap360" /\ wL.e = 0) =>
        wOut.angle = Dbl(wrap360(wL.n))

\* away from the negative magnitudes below the spacing of the doubles at 360
\* the wrap invariant holds
C14_HoldsElsewhere ==
    (wpc = "drawn" /\ wL.e >= 0) =>
        /\ C14_InRange(wOut.angle)
        /\ wOut.kind = "wrap360" => C14_Congruent(wOut.angle, wL)
====
